---- MODULE Spec2Model ----
(***************************************************************************)
(* State-machine model of the Omada Companion module: the module instance  *)
(* (src/src/main.ts), its controller client (src/src/omada-client.ts), the *)
(* action handlers (actions.ts) and the feedback handlers (feedbacks.ts).  *)
(*                                                                         *)
(* JavaScript runs the module on one thread: code between two awaited      *)
(* network requests (or between a timer firing and the first request) is   *)
(* atomic.  Every action below is therefore either a host call or a timer  *)
(* firing run up to its first request, or the arrival of one response run  *)
(* up to the next request.  An async call in progress is a task record     *)
(* that remembers the request it waits for.                                *)
(***************************************************************************)
EXTENDS Naturals, Sequences, FiniteSets, Bags, TLC

VARIABLES
    config,                     \* this.config: "valid" | "missing" | "unset"
    status,                     \* last value given to updateStatus
    client,                     \* this.client: 0 (undefined) or a client id
    clients,                    \* the OmadaClient objects still referenced
    deviceCache,                \* Map mac -> device, in insertion order
    switchDetailsCache,         \* Map mac -> switch details
    reconnectTimeout,           \* TRUE iff the handle names a pending timer
    deviceListPollInterval,     \* TRUE iff the field holds an interval handle
    switchDetailsPollInterval,  \* TRUE iff the field holds an interval handle
    devIntervals,               \* device-list intervals alive in the runtime
    swIntervals,                \* switch-details intervals alive in the runtime
    confirmationTimeouts,       \* Map key -> "none" | "pending" | "fired"
    timers,                     \* key -> confirmation timers pending in the runtime
    tasks,                      \* bag of async calls suspended at a request
    escaped,                    \* an error left a callback uncaught
    phase,                      \* host lifecycle: "new" | "running" | "destroyed"
    up,                         \* the controller has come up for good
    limit,                      \* calls the scenario lets wait at the same time
    feedback,                   \* what the two feedbacks last returned
    stale,                      \* clients whose token the controller dropped
    controller,                 \* PoE of port 1 of SW1 at the controller, or Free
    signals,                    \* checkFeedbacks() calls of the last callback step
    envelope,                   \* response.data handed to getDevices' parsing
    normalized,                 \* what getDevices made of it
    patchCall,                  \* port, profile and enablePoe of one PATCH
    portConfig                  \* the payload updateSwitchPortPoe built

vars == <<config, status, client, clients, deviceCache, switchDetailsCache,
          reconnectTimeout, deviceListPollInterval, switchDetailsPollInterval,
          devIntervals, swIntervals, confirmationTimeouts, timers, tasks,
          escaped, phase, up, limit, feedback, stale, controller, signals,
          envelope, normalized, patchCall, portConfig>>

\* The inputs and outputs of the client's pure computations.
pure == <<envelope, normalized, patchCall, portConfig>>

\* Everything but the results handed back to the host.
modvars_but_up == <<config, status, client, clients, deviceCache,
                    switchDetailsCache, reconnectTimeout, deviceListPollInterval,
                    switchDetailsPollInterval, devIntervals, swIntervals,
                    confirmationTimeouts, timers, tasks, escaped, phase, limit,
                    signals>>

modvars == <<config, status, client, clients, deviceCache, switchDetailsCache,
             reconnectTimeout, deviceListPollInterval, switchDetailsPollInterval,
             devIntervals, swIntervals, confirmationTimeouts, timers, tasks,
             escaped, phase, up, limit, signals>>

\* ------------------------------------------------------------------ bounds
\* Calls that may wait for a response at the same time: in the scenarios that
\* run the callbacks one after the other, and in those that let them race.
MaxSerial == 1
MaxInFlight == 2
\* 401 answers one client call may receive.
MaxRelogins == 2
\* Confirmation timers the Map has lost that may be pending for one key when
\* an action starts on it.
MaxLeaked == 1

\* ------------------------------------------------------------------ data
SW == [mac |-> "SW1", type |-> "switch"]
GW == [mac |-> "GW1", type |-> "gateway"]
SW2 == [mac |-> "SW2", type |-> "switch"]

\* MACs and ports an action may name; feedback options are free text.
Macs == {"SW1", "GW1"}
Ports == {1}
QueryMacs == Macs \cup {"XX"}
QueryPorts == Ports \cup {2, 3}
Keys == Macs \X Ports

\* Device lists the controller may answer with.
DeviceLists == {<<>>, <<SW, GW>>}

\* poe: "on" | "off" (portStatus.poe) or "none" (the port has no portStatus).
PortRec(n, poe) == [port |-> n, profileId |-> "p1", poe |-> poe]

\* Switch detail records the controller may answer with for SW1: without a
\* ports array, with port 1 on, with port 1 off behind port 2, and with a
\* port 1 that carries no portStatus.
DetailsSet == {[hasPorts |-> FALSE, ports |-> <<>>],
               [hasPorts |-> TRUE, ports |-> <<PortRec(1, "on")>>],
               [hasPorts |-> TRUE, ports |-> <<PortRec(2, "on"), PortRec(1, "off")>>],
               [hasPorts |-> TRUE, ports |-> <<PortRec(1, "none")>>]}

\* The controller's side of port 1 of SW1: the PoE state its port-detail
\* record reports (poe) and the one the last PATCH it accepted asks for
\* (next), which the hardware applies later. Free where the scenario lets the
\* controller answer a port-detail request with any record.
Free == [poe |-> "free", next |-> "free"]
Tracked == {[poe |-> p, next |-> p] : p \in {"on", "off"}}

\* The port-detail record of SW1 at a controller that is tracked.
Authoritative == [hasPorts |-> TRUE, ports |-> <<PortRec(1, controller.poe)>>]

\* Client objects that can be referenced at once: this.client and one per call.
ClientIds == 1 .. (MaxSerial + MaxInFlight)

\* new OmadaClient(config): no controller id, no token, the configured site name.
FreshClient(cfg) ==
    [cfg |-> cfg, controllerId |-> FALSE, token |-> FALSE, site |-> "name"]

NewTask(kind, pc, cl) ==
    [kind |-> kind, pc |-> pc, cl |-> cl, ctx |-> "refresh", ret |-> "none",
     mac |-> "", port |-> 0, want |-> FALSE, todo |-> <<>>, relogins |-> 0,
     err |-> ""]

\* The module state as one record, so that a handler is a function on it.
St == [status |-> status, client |-> client, clients |-> clients,
       deviceCache |-> deviceCache, switchDetailsCache |-> switchDetailsCache,
       reconnectTimeout |-> reconnectTimeout,
       deviceListPollInterval |-> deviceListPollInterval,
       switchDetailsPollInterval |-> switchDetailsPollInterval,
       devIntervals |-> devIntervals, swIntervals |-> swIntervals,
       confirmationTimeouts |-> confirmationTimeouts, timers |-> timers,
       tasks |-> tasks, escaped |-> escaped, signals |-> 0]

\* A client object nothing refers to any more is garbage.
Referenced(s, c) == c = s.client \/ \E t \in BagToSet(s.tasks) : t.cl = c

Apply(s) ==
    /\ status' = s.status
    /\ client' = s.client
    /\ clients' = [c \in ClientIds |->
                     IF Referenced(s, c) THEN s.clients[c] ELSE FreshClient("unset")]
    /\ deviceCache' = s.deviceCache
    /\ switchDetailsCache' = s.switchDetailsCache
    /\ reconnectTimeout' = s.reconnectTimeout
    /\ deviceListPollInterval' = s.deviceListPollInterval
    /\ switchDetailsPollInterval' = s.switchDetailsPollInterval
    /\ devIntervals' = s.devIntervals
    /\ swIntervals' = s.swIntervals
    /\ confirmationTimeouts' = s.confirmationTimeouts
    /\ timers' = s.timers
    /\ tasks' = s.tasks
    /\ escaped' = s.escaped
    /\ signals' = s.signals

Spawn(s, new) == [s EXCEPT !.tasks = @ (+) SetToBag({new})]
End(s, t) == [s EXCEPT !.tasks = @ (-) SetToBag({t})]
Put(s, old, new) == Spawn(End(s, old), new)

\* ------------------------------------------------------------ cache reads
\* Array.prototype.find on the ports of a details record: the first match.
FindPort(ports, portNumber) ==
    LET hits == SelectSeq(ports, LAMBDA p : p.port = portNumber)
    IN  IF hits = <<>> THEN <<>> ELSE <<hits[1]>>

\* isPoeEnabled with "poe !== false" for "poe === true", and no check that
\* the port was found.
isPoeEnabledInLoose(cache, deviceMac, portNumber) ==
    IF deviceMac \notin DOMAIN cache THEN FALSE
    ELSE LET port == FindPort(cache[deviceMac].ports, portNumber)
         IN  IF port = <<>> THEN TRUE ELSE port[1].poe # "off"

isPoeEnabledIn(cache, deviceMac, portNumber) ==
    IF deviceMac \notin DOMAIN cache THEN FALSE
    ELSE LET port == FindPort(cache[deviceMac].ports, portNumber)
         IN  IF port = <<>> THEN FALSE ELSE port[1].poe = "on"

isPoeEnabled(deviceMac, portNumber) ==
    isPoeEnabledIn(switchDetailsCache, deviceMac, portNumber)

handlePoeStateFeedback(deviceMac, portNumber) ==
    isPoeEnabled(deviceMac, portNumber)

\* poe_state_off with the negation forgotten.
handlePoeStateOffFeedbackSame(deviceMac, portNumber) ==
    isPoeEnabled(deviceMac, portNumber)

handlePoeStateOffFeedback(deviceMac, portNumber) ==
    ~isPoeEnabled(deviceMac, portNumber)

\* ------------------------------------------------------- timers and polls
scheduleReconnect(s) == [s EXCEPT !.reconnectTimeout = TRUE]

\* startPolling that sets its intervals without clearing the ones it holds.
startPollingNoClear(s) ==
    [s EXCEPT !.devIntervals = @ + 1,
              !.swIntervals = @ + 1,
              !.deviceListPollInterval = TRUE,
              !.switchDetailsPollInterval = TRUE]

startPolling(s) ==
    [s EXCEPT !.devIntervals = (IF s.deviceListPollInterval THEN @ - 1 ELSE @) + 1,
              !.swIntervals = (IF s.switchDetailsPollInterval THEN @ - 1 ELSE @) + 1,
              !.deviceListPollInterval = TRUE,
              !.switchDetailsPollInterval = TRUE]

stopPolling(s) ==
    [s EXCEPT !.devIntervals = IF s.deviceListPollInterval THEN @ - 1 ELSE @,
              !.swIntervals = IF s.switchDetailsPollInterval THEN @ - 1 ELSE @,
              !.deviceListPollInterval = FALSE,
              !.switchDetailsPollInterval = FALSE]

\* --------------------------------------------------- how a call continues
\* initConnection, after refreshDevices returned: status Ok, polling started.
ConnectSucceeded(s, t) == startPolling([End(s, t) EXCEPT !.status = "Ok"])

\* initConnection's catch block without scheduleReconnect().
ConnectFailedNoRetry(s, t) == [End(s, t) EXCEPT !.status = "ConnectionFailure"]

\* initConnection's catch block.
ConnectFailed(s, t) ==
    scheduleReconnect([End(s, t) EXCEPT !.status = "ConnectionFailure"])

\* A handler whose catch block throws the error on to the host.
HandlerRethrow(s, t) == [End(s, t) EXCEPT !.escaped = TRUE]

\* The catch block of handlePoeAction and of handlePoeToggle.
HandlerCatch(s, t) == [End(s, t) EXCEPT !.status = "UnknownError"]

\* this.checkFeedbacks()
checkFeedbacks(s) == [s EXCEPT !.signals = @ + 1]

\* refreshSwitchDetails returned: its caller goes on.
Refreshed(s, t) ==
    CASE t.kind = "conn" -> ConnectSucceeded(s, t)
      [] t.kind = "action" -> HandlerCatch(s, t)
      [] OTHER -> End(s, t)

\* refreshSwitchDetails has gone through its switches: it signals the
\* feedbacks and returns.
LoopDone(s, t) == Refreshed(checkFeedbacks(s), t)

\* refreshSwitchDetails up to its first request.
refreshSwitchDetails(s, t) ==
    LET switches == SelectSeq(s.deviceCache, LAMBDA d : d.type = "switch")
    IN  IF s.client = 0 THEN Refreshed(s, t)
        ELSE IF switches = <<>> THEN LoopDone(s, t)
        ELSE Put(s, t, [t EXCEPT !.pc = "details", !.ctx = "refresh",
                                 !.cl = s.client, !.ret = "none", !.relogins = 0,
                                 !.todo = [i \in DOMAIN switches |-> switches[i].mac]])

\* One switch of the loop is done: the next request goes to the current client.
NextSwitch(s, t) ==
    IF Len(t.todo) <= 1 THEN LoopDone(s, t)
    ELSE Put(s, t, [t EXCEPT !.todo = Tail(@), !.cl = s.client])

\* refreshDeviceList up to its request (refreshDevices when t is no poll).
refreshDeviceList(s, t) ==
    IF s.client = 0
    THEN IF t.kind = "discPoll" THEN End(s, t) ELSE refreshSwitchDetails(s, t)
    ELSE Put(s, t, [t EXCEPT !.pc = "devices", !.ctx = "refresh",
                             !.cl = s.client, !.ret = "none", !.relogins = 0])

\* togglePortPoe's catch block without its refreshDevices().
ToggleFailedNoRefresh(s, t, e) == HandlerCatch(s, t)

\* togglePortPoe's catch block holding error e: refresh at once, the error is
\* thrown after it. e is "notfound" (no such device), "noport" (no such port
\* in the details of the switch), "rejected" (the
\* PATCH answered with a non-zero errorCode) or the failure of another request.
ToggleFailed(s, t, e) ==
    LET u == [t EXCEPT !.err = e]
    IN  refreshDeviceList(Put(s, t, u), u)

\* Catch blocks that treat a failed poll like a failed connect attempt.
CallFailedReconnects(s, t, o) ==
    IF t.kind = "action" /\ t.ctx = "mut" THEN ToggleFailed(s, t, o)
    ELSE IF t.kind = "action" THEN HandlerCatch(s, t)
    ELSE ConnectFailed(s, t)

\* A client call of the task threw on outcome o: who catches it.
CallFailed(s, t, o) ==
    CASE t.kind = "conn" -> ConnectFailed(s, t)
      [] t.kind = "action" /\ t.ctx = "mut" -> ToggleFailed(s, t, o)
      [] t.kind = "action" /\ t.ctx = "refresh" -> HandlerCatch(s, t)
      [] OTHER -> End(s, t)

\* A 401 caught by getDevices / updateSwitchPortPoe / updateGatewayPortPoe:
\* login again, then call the same method again.
Relogin(s, t, retry) ==
    Put(s, t, [t EXCEPT !.pc = "info", !.ret = retry, !.relogins = @ + 1])

\* ------------------------------------------------------------- the client
\* login() after the last of its three requests: the caller goes on.
LoginDone(s, t) ==
    CASE t.ret = "devices" -> Put(s, t, [t EXCEPT !.pc = "devices"])
      [] t.ret = "switch" -> Put(s, t, [t EXCEPT !.pc = "details"])
      [] t.ret = "gateway" -> Put(s, t, [t EXCEPT !.pc = "gwPatch"])
      [] OTHER -> refreshDeviceList(s, t)

\* GET /api/info answered.
OnInfo(s, t, o) ==
    IF o = "ok"
    THEN Put([s EXCEPT !.clients[t.cl].controllerId = TRUE], t,
             [t EXCEPT !.pc = "loginPost"])
    ELSE CallFailed(s, t, o)

\* POST login answered.
OnLogin(s, t, o) ==
    IF o = "ok"
    THEN Put([s EXCEPT !.clients[t.cl].token = TRUE], t, [t EXCEPT !.pc = "site"])
    ELSE CallFailed(s, t, o)

\* resolveSiteKey that lets a failed current-user request fail the login.
resolveSiteKeyThrows(s, t, o, userSites) ==
    LET hits == SelectSeq(userSites, LAMBDA x : x.name = s.clients[t.cl].site)
    IN  IF o # "ok" THEN CallFailed(s, t, o)
        ELSE LoginDone(IF hits # <<>>
                       THEN [s EXCEPT !.clients[t.cl].site = hits[1].key]
                       ELSE s, t)

\* resolveSiteKey that starts from the configured site name at every login.
resolveSiteKeyFromName(s, t, o, userSites) ==
    LET hits == SelectSeq(userSites, LAMBDA x : x.name = "name")
    IN  LoginDone([s EXCEPT !.clients[t.cl].site =
                              IF o = "ok" /\ hits # <<>> THEN hits[1].key ELSE "name"], t)

\* resolveSiteKey: GET users/current answered with the sites userSites of the
\* user; the first one named exactly like this.siteId gives its key. Every
\* failure is swallowed.
resolveSiteKey(s, t, o, userSites) ==
    LET hits == SelectSeq(userSites, LAMBDA x : x.name = s.clients[t.cl].site)
    IN  LoginDone(IF o = "ok" /\ hits # <<>>
                  THEN [s EXCEPT !.clients[t.cl].site = hits[1].key]
                  ELSE s, t)

\* Map.set on the device cache: a device whose MAC is a key already takes the
\* place of the one held, another is added last.
MapSet(map, device) ==
    IF \E i \in DOMAIN map : map[i].mac = device.mac
    THEN [i \in DOMAIN map |-> IF map[i].mac = device.mac THEN device ELSE map[i]]
    ELSE Append(map, device)

\* devices.forEach((device) => this.deviceCache.set(device.mac, device))
RECURSIVE SetEach(_, _)
SetEach(map, devices) ==
    IF devices = <<>> THEN map
    ELSE SetEach(MapSet(map, Head(devices)), Tail(devices))

\* refreshDeviceList after getDevices returned, without deviceCache.clear().
UpdateDeviceCacheNoClear(s, devices) ==
    [s EXCEPT !.deviceCache = SetEach(@, devices)]

\* refreshDeviceList after getDevices returned: the cache is cleared and
\* filled from the list.
UpdateDeviceCache(s, devices) ==
    [s EXCEPT !.deviceCache = SetEach(<<>>, devices)]

\* updatePortPoe that returns at once when the cache already shows the
\* wanted state.
updatePortPoeIfChanged(s, t, devices) ==
    LET hits == SelectSeq(devices, LAMBDA d : d.mac = t.mac)
    IN  IF isPoeEnabledIn(s.switchDetailsCache, t.mac, t.port) = t.want THEN End(s, t)
        ELSE IF hits = <<>> THEN ToggleFailed(s, t, "notfound")
        ELSE IF hits[1].type = "gateway"
             THEN Put(s, t, [t EXCEPT !.pc = "gwPatch", !.relogins = 0])
             ELSE Put(s, t, [t EXCEPT !.pc = "details", !.relogins = 0])

\* updatePortPoe that takes the switch path for type "switch" only.
updatePortPoeSwitchOnly(s, t, devices) ==
    LET hits == SelectSeq(devices, LAMBDA d : d.mac = t.mac)
    IN  IF hits = <<>> THEN ToggleFailed(s, t, "notfound")
        ELSE IF hits[1].type = "switch"
             THEN Put(s, t, [t EXCEPT !.pc = "details", !.relogins = 0])
             ELSE Put(s, t, [t EXCEPT !.pc = "gwPatch", !.relogins = 0])

\* updatePortPoe after getDevice returned: dispatch on the device type.
updatePortPoe(s, t, devices) ==
    LET hits == SelectSeq(devices, LAMBDA d : d.mac = t.mac)
    IN  IF hits = <<>> THEN ToggleFailed(s, t, "notfound")
        ELSE IF hits[1].type = "gateway"
             THEN Put(s, t, [t EXCEPT !.pc = "gwPatch", !.relogins = 0])
             ELSE Put(s, t, [t EXCEPT !.pc = "details", !.relogins = 0])

\* getDevices that rethrows a 401 like any other failure.
getDevicesNoRelogin(s, t, o, devices) ==
    CASE o = "unauth" -> CallFailed(s, t, o)
      [] o = "ok" /\ t.ctx = "mut" -> updatePortPoe(s, t, devices)
      [] o = "ok" /\ t.ctx = "refresh" ->
            IF t.kind = "discPoll"
            THEN End(UpdateDeviceCache(s, devices), t)
            ELSE refreshSwitchDetails(UpdateDeviceCache(s, devices), t)
      [] OTHER -> CallFailed(s, t, o)

\* getDevices answered.
getDevices(s, t, o, devices) ==
    CASE o = "unauth" -> Relogin(s, t, "devices")
      [] o = "ok" /\ t.ctx = "mut" -> updatePortPoe(s, t, devices)
      [] o = "ok" /\ t.ctx = "refresh" ->
            IF t.kind = "discPoll"
            THEN End(UpdateDeviceCache(s, devices), t)
            ELSE refreshSwitchDetails(UpdateDeviceCache(s, devices), t)
      [] OTHER -> CallFailed(s, t, o)

\* Map.set on the switch details cache.
CacheSet(cache, mac, details) ==
    [m \in DOMAIN cache \cup {mac} |-> IF m = mac THEN details ELSE cache[m]]

\* togglePortPoe without its optimistic update.
OptimisticWriteSkipped(cache, deviceMac, portNumber, enablePoe) == cache

\* The optimistic update of togglePortPoe: only a cached port that has a
\* portStatus is written.
OptimisticWrite(cache, deviceMac, portNumber, enablePoe) ==
    IF deviceMac \notin DOMAIN cache THEN cache
    ELSE LET ports == cache[deviceMac].ports
             port == FindPort(ports, portNumber)
         IN  IF port = <<>> \/ port[1].poe = "none" THEN cache
             ELSE [cache EXCEPT ![deviceMac].ports =
                     [i \in DOMAIN ports |->
                        IF ports[i] = port[1]
                        THEN [ports[i] EXCEPT !.poe = IF enablePoe THEN "on" ELSE "off"]
                        ELSE ports[i]]]

\* togglePortPoe: clear the timer the Map holds for the key, arm a new one and
\* store it.
ArmConfirmation(s, t) ==
    LET key == <<t.mac, t.port>>
        kept == IF s.confirmationTimeouts[key] = "pending"
                THEN s.timers[key] - 1 ELSE s.timers[key]
    IN  [s EXCEPT !.timers[key] = kept + 1,
                  !.confirmationTimeouts[key] = "pending"]

\* togglePortPoe after updatePortPoe returned normally.
ToggleSucceeded(s, t) ==
    End(ArmConfirmation(
          checkFeedbacks([s EXCEPT !.switchDetailsCache =
                                     OptimisticWrite(@, t.mac, t.port, t.want)]), t), t)

\* The confirmation callback that signals the feedbacks without storing
\* the record it fetched.
ConfirmDoneNoStore(s, t, o, details) ==
    End([(IF o = "ok" THEN checkFeedbacks(s) ELSE s)
         EXCEPT !.confirmationTimeouts[<<t.mac, t.port>>] = "none"], t)

\* The confirmation callback that leaves the Map entry of its key in place
\* when the fetch failed.
ConfirmDoneKeepsEntry(s, t, o, details) ==
    IF o = "ok"
    THEN End([checkFeedbacks([s EXCEPT !.switchDetailsCache =
                                         CacheSet(@, t.mac, details)])
              EXCEPT !.confirmationTimeouts[<<t.mac, t.port>>] = "none"], t)
    ELSE End(s, t)

\* The confirmation callback after its getSwitchDetails settled.
ConfirmDone(s, t, o, details) ==
    End([(IF o = "ok"
          THEN checkFeedbacks([s EXCEPT !.switchDetailsCache =
                                          CacheSet(@, t.mac, details)])
          ELSE s)
         EXCEPT !.confirmationTimeouts[<<t.mac, t.port>>] = "none"], t)

\* getSwitchDetails answered, with updateSwitchPortPoe going on to the
\* profile and the PATCH whether or not the details hold the port.
getSwitchDetailsAnyPort(s, t, o, details) ==
    CASE t.kind = "confirm" -> ConfirmDone(s, t, o, details)
      [] t.ctx = "mut" /\ o = "unauth" -> Relogin(s, t, "switch")
      [] t.ctx = "mut" /\ o = "ok" ->
            Put(s, t, [t EXCEPT !.pc = "profile"])
      [] t.ctx = "mut" -> ToggleFailed(s, t, o)
      [] OTHER ->
            NextSwitch(IF o = "ok"
                       THEN [s EXCEPT !.switchDetailsCache =
                                        CacheSet(@, Head(t.todo), details)]
                       ELSE s, t)

\* getSwitchDetails answered, with the loop of refreshSwitchDetails giving
\* up its remaining switches when the request of one fails.
getSwitchDetailsAbortLoop(s, t, o, details) ==
    CASE t.kind = "confirm" -> ConfirmDone(s, t, o, details)
      [] t.ctx = "mut" /\ o = "unauth" -> Relogin(s, t, "switch")
      [] t.ctx = "mut" /\ o = "ok" ->
            IF FindPort(details.ports, t.port) = <<>> THEN ToggleFailed(s, t, "noport")
            ELSE Put(s, t, [t EXCEPT !.pc = "profile"])
      [] t.ctx = "mut" -> ToggleFailed(s, t, o)
      [] OTHER ->
            IF o = "ok"
            THEN NextSwitch([s EXCEPT !.switchDetailsCache =
                                        CacheSet(@, Head(t.todo), details)], t)
            ELSE LoopDone(s, t)

\* getSwitchDetails answered: to the confirmation callback, to
\* updateSwitchPortPoe, or to the loop of refreshSwitchDetails.
getSwitchDetails(s, t, o, details) ==
    CASE t.kind = "confirm" -> ConfirmDone(s, t, o, details)
      [] t.ctx = "mut" /\ o = "unauth" -> Relogin(s, t, "switch")
      [] t.ctx = "mut" /\ o = "ok" ->
            IF FindPort(details.ports, t.port) = <<>> THEN ToggleFailed(s, t, "noport")
            ELSE Put(s, t, [t EXCEPT !.pc = "profile"])
      [] t.ctx = "mut" -> ToggleFailed(s, t, o)
      [] OTHER ->
            NextSwitch(IF o = "ok"
                       THEN [s EXCEPT !.switchDetailsCache =
                                        CacheSet(@, Head(t.todo), details)]
                       ELSE s, t)

\* getPortProfile answered inside updateSwitchPortPoe.
getPortProfile(s, t, o) ==
    CASE o = "ok" -> Put(s, t, [t EXCEPT !.pc = "patch"])
      [] o = "unauth" -> Relogin(s, t, "switch")
      [] OTHER -> ToggleFailed(s, t, o)

\* The PATCH answered, with the errorCode of the answer not looked at.
OnPatchAnyCode(s, t, o) ==
    CASE o \in {"ok", "apperr"} -> ToggleSucceeded(s, t)
      [] o = "unauth" -> Relogin(s, t, IF t.pc = "patch" THEN "switch" ELSE "gateway")
      [] OTHER -> ToggleFailed(s, t, o)

\* The PATCH of updateSwitchPortPoe / updateGatewayPortPoe answered.
OnPatch(s, t, o) ==
    CASE o = "ok" -> ToggleSucceeded(s, t)
      [] o = "unauth" -> Relogin(s, t, IF t.pc = "patch" THEN "switch" ELSE "gateway")
      [] o = "apperr" -> ToggleFailed(s, t, "rejected")
      [] OTHER -> ToggleFailed(s, t, o)

\* initConnection up to the first request of login().
initConnection(s, cfg) ==
    LET c == CHOOSE i \in ClientIds :
                 /\ ~Referenced(s, i)
                 /\ \A j \in ClientIds : ~Referenced(s, j) => i <= j
    IN  Spawn([s EXCEPT !.clients[c] = FreshClient(cfg), !.client = c],
              NewTask("conn", "info", c))

\* logout() without its finally block.
logoutKeepsSession(s, t) ==
    IF t.kind = "reconf" THEN initConnection(End(s, t), config)
    ELSE End(s, t)

\* logout() settled: the finally block drops the session (token, cookies and
\* both default headers at once); configUpdated goes on to connect.
logout(s, t) ==
    LET s1 == [s EXCEPT !.clients[t.cl].token = FALSE]
    IN  IF t.kind = "reconf" THEN initConnection(End(s1, t), config)
        ELSE End(s1, t)

\* logout() up to its request; without token or controller id there is none.
StartLogout(s, kind, cfg) ==
    IF s.client # 0 /\ s.clients[s.client].token /\ s.clients[s.client].controllerId
    THEN Spawn(s, NewTask(kind, "logout", s.client))
    ELSE IF kind = "reconf" THEN initConnection(s, cfg) ELSE s

\* The answer to the request task t waits for, with outcome o.
OnResponse(s, t, o, devices, details, userSites) ==
    CASE t.pc = "info" -> OnInfo(s, t, o)
      [] t.pc = "loginPost" -> OnLogin(s, t, o)
      [] t.pc = "site" -> resolveSiteKey(s, t, o, userSites)
      [] t.pc = "devices" -> getDevices(s, t, o, devices)
      [] t.pc = "details" -> getSwitchDetails(s, t, o, details)
      [] t.pc = "profile" -> getPortProfile(s, t, o)
      [] t.pc \in {"patch", "gwPatch"} -> OnPatch(s, t, o)
      [] OTHER -> logout(s, t)

\* ------------------------------------------------------------ the machine
Init0 ==
    /\ config = "unset"
    /\ status = "Unset"
    /\ client = 0
    /\ clients = [c \in ClientIds |-> FreshClient("unset")]
    /\ deviceCache = <<>>
    /\ switchDetailsCache = <<>>
    /\ reconnectTimeout = FALSE
    /\ deviceListPollInterval = FALSE
    /\ switchDetailsPollInterval = FALSE
    /\ devIntervals = 0
    /\ swIntervals = 0
    /\ confirmationTimeouts = [k \in Keys |-> "none"]
    /\ timers = [k \in Keys |-> 0]
    /\ tasks = EmptyBag
    /\ escaped = FALSE
    /\ phase = "new"
    /\ up = FALSE
    /\ feedback = [on |-> FALSE, off |-> TRUE]
    /\ stale = {}
    /\ signals = 0

\* No pure computation is under study.
Idle ==
    /\ envelope = [t |-> "undefined"]
    /\ normalized = [t |-> "undefined"]
    /\ patchCall = [t |-> "undefined"]
    /\ portConfig = [t |-> "undefined"]

\* The callbacks run one after the other.
Init == Init0 /\ Idle /\ limit = MaxSerial /\ controller = Free

\* The callbacks race.
InitRace == Init0 /\ Idle /\ limit = MaxInFlight /\ controller = Free

\* The callbacks run one after the other, and the controller answers a
\* port-detail request with the record it holds.
InitTracked == Init0 /\ Idle /\ limit = MaxSerial /\ controller \in Tracked

\* A callback or host call may start while fewer than MaxInFlight calls wait.
Room == BagCardinality(tasks) < limit

\* init(config)
init ==
    \E cfg \in {"valid", "missing"} :
        /\ phase = "new"
        /\ phase' = "running"
        /\ config' = cfg
        /\ Apply(IF cfg = "valid"
                 THEN initConnection([St EXCEPT !.status = "Connecting"], cfg)
                 ELSE [St EXCEPT !.status = "BadConfig"])
        /\ UNCHANGED <<up, limit, feedback, stale, controller, pure>>

\* configUpdated(config)
configUpdated ==
    \E cfg \in {"valid", "missing"} :
        /\ phase = "running"
        /\ Room
        /\ config' = cfg
        /\ Apply(StartLogout([stopPolling(St) EXCEPT !.reconnectTimeout = FALSE],
                             "reconf", cfg))
        /\ UNCHANGED <<phase, up, limit, feedback, stale, controller, pure>>

\* destroy()
destroy ==
    /\ phase = "running"
    /\ Room
    /\ phase' = "destroyed"
    /\ Apply(StartLogout(
              [stopPolling(St) EXCEPT
                 !.reconnectTimeout = FALSE,
                 !.timers = [k \in Keys |->
                               IF confirmationTimeouts[k] = "pending"
                               THEN @[k] - 1 ELSE @[k]],
                 !.confirmationTimeouts = [k \in Keys |-> "none"]],
              "destroy", config))
    /\ UNCHANGED <<config, up, limit, feedback, stale, controller, pure>>

\* The reconnect timer fires: initConnection again.
reconnectFire ==
    /\ reconnectTimeout
    /\ Room
    /\ Apply(initConnection([St EXCEPT !.reconnectTimeout = FALSE], config))
    /\ UNCHANGED <<config, phase, up, limit, feedback, stale, controller, pure>>

\* The device-list interval fires.
deviceListPollFire ==
    /\ devIntervals > 0
    /\ Room
    /\ Apply(refreshDeviceList(St, NewTask("discPoll", "", 0)))
    /\ UNCHANGED <<config, phase, up, limit, feedback, stale, controller, pure>>

\* The switch-details interval fires.
switchDetailsPollFire ==
    /\ swIntervals > 0
    /\ Room
    /\ Apply(refreshSwitchDetails(St, NewTask("statusPoll", "", 0)))
    /\ UNCHANGED <<config, phase, up, limit, feedback, stale, controller, pure>>

\* The pending confirmation timers of key k that the Map does not hold.
Leaked(k) == timers[k] - (IF confirmationTimeouts[k] = "pending" THEN 1 ELSE 0)

\* A confirmation timer of key k fires, the one the Map holds or one it has
\* lost: getSwitchDetails on the current client.
confirmFireAt(k, held) ==
    /\ Room
    /\ client # 0
    /\ IF held THEN confirmationTimeouts[k] = "pending"
       ELSE Leaked(k) > 0
    /\ Apply(Spawn([St EXCEPT !.timers[k] = @ - 1,
                              !.confirmationTimeouts[k] =
                                 IF held THEN "fired" ELSE @],
                   [NewTask("confirm", "details", client)
                      EXCEPT !.mac = k[1], !.port = k[2]]))
    /\ UNCHANGED <<config, phase, up, limit, feedback, stale, controller, pure>>

confirmFire == \E k \in Keys, held \in BOOLEAN : confirmFireAt(k, held)

\* togglePortPoe up to the getDevices request of updatePortPoe.
togglePortPoe(deviceMac, portNumber, enablePoe) ==
    /\ phase = "running"
    /\ client # 0
    /\ Room
    /\ Leaked(<<deviceMac, portNumber>>) <= MaxLeaked
    /\ Apply(Spawn(St, [NewTask("action", "devices", client)
                          EXCEPT !.ctx = "mut", !.mac = deviceMac,
                                 !.port = portNumber, !.want = enablePoe]))
    /\ UNCHANGED <<config, phase, up, limit, feedback, stale, controller, pure>>

\* The callbacks of the actions poe_enable and poe_disable.
handlePoeAction ==
    \E deviceMac \in Macs, portNumber \in Ports, enablePoe \in BOOLEAN :
        togglePortPoe(deviceMac, portNumber, enablePoe)

\* The callback of the action poe_toggle.
handlePoeToggle ==
    \E deviceMac \in Macs, portNumber \in Ports :
        togglePortPoe(deviceMac, portNumber, ~isPoeEnabled(deviceMac, portNumber))

\* The host evaluates the feedbacks poe_state and poe_state_off of one button.
checkFeedback ==
    \E deviceMac \in QueryMacs, portNumber \in QueryPorts :
        /\ phase = "running"
        /\ feedback' = [on |-> handlePoeStateFeedback(deviceMac, portNumber),
                        off |-> handlePoeStateOffFeedback(deviceMac, portNumber)]
        /\ UNCHANGED <<modvars, stale, controller, pure>>

\* The request of task t can reach the controller and names what exists: the
\* client was built with a host, and a switch-details request names a switch.
Reachable(t) ==
    /\ clients[t.cl].cfg = "valid"
    /\ t.pc = "details" =>
          (IF t.kind = "confirm" \/ t.ctx = "mut" THEN t.mac ELSE Head(t.todo))
             \in {SW.mac, SW2.mac}

\* The controller still honours the session the request of task t is sent
\* with; the requests of login() need none.
Authorized(t) == t.cl \in stale => t.pc \in {"info", "loginPost"}

\* The controller can serve the request of task t.
Served(t) == Reachable(t) /\ Authorized(t)

\* The sites of the user when one is named like the configured site "name",
\* behind one whose name differs from it in case only; and site lists in
\* which none is named exactly like it.
UserSites == <<[name |-> "Name", key |-> "other"], [name |-> "name", key |-> "key"]>>
OtherSites == {<<>>, <<[name |-> "Name", key |-> "other"]>>,
               <<[name |-> "lab", key |-> "other"]>>}

\* Stand-ins for the payload of an answer that carries none.
NoSites == <<>>
NoDevices == <<>>
NoDetails == [hasPorts |-> FALSE, ports |-> <<>>]

\* The request of task t is answered with success.
ResponseAt(t, devices, details) ==
    /\ Served(t)
    /\ t.pc # "devices" => devices = NoDevices
    /\ t.pc # "details" => details = NoDetails
    /\ (t.pc = "details" /\ controller # Free) => details = Authoritative
    /\ Apply(OnResponse(St, t, "ok", devices, details, UserSites))
    /\ stale' = IF t.pc = "loginPost" THEN stale \ {t.cl} ELSE stale
    /\ controller' = IF t.pc = "patch" /\ t.mac = SW.mac /\ controller # Free
                      THEN [controller EXCEPT !.next = IF t.want THEN "on" ELSE "off"]
                      ELSE controller
    /\ UNCHANGED <<config, phase, up, limit, feedback, pure>>

Response ==
    \E t \in BagToSet(tasks), devices \in DeviceLists, details \in DetailsSet :
        ResponseAt(t, devices, details)

\* Device lists in which the controller gives a device another type than
\* switch or gateway, or none.
OtherKindLists ==
    {<<[mac |-> m, type |-> k]>> : m \in Macs, k \in {"ap", ""}}
    \cup {<<GW>>, <<GW, [mac |-> "SW1", type |-> "ap"]>>}

\* The device lookup of a mutation is answered with such a list.
ResponseOtherKind ==
    \E t \in BagToSet(tasks), devices \in OtherKindLists :
        /\ t.pc = "devices"
        /\ t.ctx = "mut"
        /\ ResponseAt(t, devices, NoDetails)

\* Device lists of a controller that manages a second switch.
TwoSwitchLists == {<<SW, SW2>>, <<SW2, GW, SW>>}

\* A refresh of the device list is answered with such a list.
ResponseTwoSwitches ==
    \E t \in BagToSet(tasks), devices \in TwoSwitchLists :
        /\ t.pc = "devices"
        /\ t.ctx = "refresh"
        /\ ResponseAt(t, devices, NoDetails)

\* The current-user request of task t is answered with the sites userSites.
SitesAt(t, userSites) ==
    /\ Served(t)
    /\ t.pc = "site"
    /\ Apply(OnResponse(St, t, "ok", NoDevices, NoDetails, userSites))
    /\ UNCHANGED <<config, phase, up, limit, feedback, stale, controller, pure>>

\* The current-user request is answered, and no site is named like siteId.
SiteNoMatch ==
    \E t \in BagToSet(tasks), userSites \in OtherSites : SitesAt(t, userSites)

\* The request of task t fails: HTTP 401 ("unauth"), no response ("neterr"),
\* or an answer with a non-zero errorCode ("apperr"). Once the controller is
\* up for good, only what it cannot serve fails, and a request with a
\* session it has dropped fails with 401.
FailureAt(t, o) ==
    /\ ~up \/ ~Reachable(t) \/ (~Authorized(t) /\ o = "unauth")
    /\ clients[t.cl].cfg = "valid" \/ o = "neterr"
    /\ o = "unauth" => t.relogins < MaxRelogins
    /\ Apply(OnResponse(St, t, o, NoDevices, NoDetails, NoSites))
    /\ UNCHANGED <<config, phase, up, limit, feedback, stale, controller, pure>>

Unauthorized == \E t \in BagToSet(tasks) : FailureAt(t, "unauth")
NetworkError == \E t \in BagToSet(tasks) : FailureAt(t, "neterr")
AppError == \E t \in BagToSet(tasks) : FailureAt(t, "apperr")

\* The hardware applies the PoE state of the last PATCH the controller
\* accepted: its port-detail record shows it from now on.
portApplied ==
    /\ controller # Free
    /\ controller.poe # controller.next
    /\ controller' = [controller EXCEPT !.poe = controller.next]
    /\ UNCHANGED <<modvars, feedback, stale, pure>>

\* The request of task t is answered with success, a port-detail fetch with
\* the record the controller holds.
HeldAt(t) ==
    \E devices \in DeviceLists :
        ResponseAt(t, devices, IF t.pc = "details" THEN Authoritative ELSE NoDetails)

ResponseHeld == \E t \in BagToSet(tasks) : HeldAt(t)

\* A request the controller cannot serve fails, and so may any other but a
\* port-detail fetch it can serve.
OtherFailureAt(t) ==
    /\ t.pc = "details" => ~Reachable(t)
    /\ FailureAt(t, "neterr")

OtherFailure == \E t \in BagToSet(tasks) : OtherFailureAt(t)

\* The fetch of a confirmation callback of key k settles.
ConfirmSettles(k) ==
    \E t \in BagToSet(tasks) :
        /\ t.kind = "confirm" /\ t.mac = k[1] /\ t.port = k[2]
        /\ HeldAt(t) \/ OtherFailureAt(t)

\* The controller drops the session of the connected client (it restarted,
\* or the session timed out).
SessionExpired ==
    /\ ~up
    /\ status = "Ok"
    /\ client # 0
    /\ clients[client].token
    /\ client \notin stale
    /\ \A t \in BagToSet(tasks) : t.cl = client => t.relogins < MaxRelogins
    /\ stale' = stale \cup {client}
    /\ UNCHANGED <<modvars, feedback, controller, pure>>

\* The request of task t is answered with success by a controller that,
\* once it is up for good, lists its devices.
ResponseListed ==
    \E t \in BagToSet(tasks), devices \in DeviceLists, details \in DetailsSet :
        /\ (up /\ t.pc = "devices") => devices # NoDevices
        /\ ResponseAt(t, devices, details)

\* From now on the controller serves every request it can.
ControllerUp ==
    /\ ~up
    /\ up' = TRUE
    /\ UNCHANGED <<modvars_but_up, feedback, stale, controller, pure>>

Next ==
    \/ init
    \/ configUpdated
    \/ destroy
    \/ reconnectFire
    \/ deviceListPollFire
    \/ switchDetailsPollFire
    \/ confirmFire
    \/ handlePoeAction
    \/ handlePoeToggle
    \/ checkFeedback
    \/ Response
    \/ SiteNoMatch
    \/ Unauthorized
    \/ NetworkError
    \/ AppError
    \/ ControllerUp

Spec == Init /\ [][Next]_vars

\* The actions on one connection whose session stays valid.
NextToggle ==
    \/ init
    \/ switchDetailsPollFire
    \/ handlePoeAction
    \/ handlePoeToggle
    \/ Response
    \/ NetworkError
    \/ AppError

SpecToggle == Init /\ [][NextToggle]_vars

\* Buttons read the cache while polls and actions write it.
NextFeedback ==
    \/ init
    \/ switchDetailsPollFire
    \/ handlePoeAction
    \/ checkFeedback
    \/ Response
    \/ NetworkError

SpecFeedback == Init /\ [][NextFeedback]_vars

\* The actions on a connection whose session expires.
NextAuth ==
    \/ init
    \/ handlePoeAction
    \/ handlePoeToggle
    \/ deviceListPollFire
    \/ Response
    \/ Unauthorized
    \/ NetworkError
    \/ AppError

SpecAuth == Init /\ [][NextAuth]_vars

\* The actions racing with their confirmation timers.
NextConfirm ==
    \/ init
    \/ handlePoeAction
    \/ handlePoeToggle
    \/ confirmFire
    \/ Response

SpecConfirm == InitRace /\ [][NextConfirm]_vars

\* Connect attempts racing with reconnect firings and configuration updates.
NextReconf ==
    \/ init
    \/ configUpdated
    \/ reconnectFire
    \/ Response
    \/ NetworkError

SpecReconf == InitRace /\ [][NextReconf]_vars

\* The two poll cycles against a controller that fails at will.
NextPoll ==
    \/ init
    \/ reconnectFire
    \/ deviceListPollFire
    \/ switchDetailsPollFire
    \/ Response
    \/ Unauthorized
    \/ NetworkError
    \/ AppError

SpecPoll == Init /\ [][NextPoll]_vars

\* The reconnect cycle against a controller that comes up for good.
NextLive ==
    \/ init
    \/ reconnectFire
    \/ deviceListPollFire
    \/ switchDetailsPollFire
    \/ Response
    \/ Unauthorized
    \/ NetworkError
    \/ ControllerUp

\* Node fires a due timer and every request settles (axios times out).
LiveSpec ==
    /\ Init
    /\ [][NextLive]_vars
    /\ SF_vars(reconnectFire)
    /\ WF_vars(Response)

\* Logins, first ones and repeated ones, whose current-user request fails or
\* names no site like the configured one.
NextSite ==
    \/ init
    \/ reconnectFire
    \/ deviceListPollFire
    \/ Response
    \/ SiteNoMatch
    \/ Unauthorized
    \/ NetworkError
    \/ AppError

SpecSite == Init /\ [][NextSite]_vars

\* The status cycle over one or two switches whose detail requests may fail.
NextCycle ==
    \/ init
    \/ deviceListPollFire
    \/ switchDetailsPollFire
    \/ Response
    \/ ResponseTwoSwitches
    \/ NetworkError
    \/ AppError

SpecCycle == Init /\ [][NextCycle]_vars

\* Mutations on devices of every type.
NextDispatch ==
    \/ init
    \/ handlePoeAction
    \/ Response
    \/ ResponseOtherKind
    \/ NetworkError

SpecDispatch == Init /\ [][NextDispatch]_vars

\* The host reconfigures and destroys a module that has toggled ports and
\* polls its switches.
NextSession ==
    \/ init
    \/ configUpdated
    \/ destroy
    \/ handlePoeAction
    \/ confirmFire
    \/ switchDetailsPollFire
    \/ Response
    \/ NetworkError

SpecSession == Init /\ [][NextSession]_vars

\* Reconfiguration and destruction racing with connects and actions.
NextSessionRace ==
    \/ init
    \/ configUpdated
    \/ destroy
    \/ handlePoeToggle
    \/ Response

SpecSessionRace == InitRace /\ [][NextSessionRace]_vars

\* The host reconfigures and destroys the module; logout requests may fail.
NextTeardown ==
    \/ init
    \/ configUpdated
    \/ destroy
    \/ Response
    \/ Unauthorized
    \/ NetworkError
    \/ AppError

SpecTeardown == Init /\ [][NextTeardown]_vars

\* The poll cycles of a connected module against a controller that is out of
\* reach or drops the session for a while and then comes up for good.
NextLoss ==
    \/ init
    \/ reconnectFire
    \/ deviceListPollFire
    \/ switchDetailsPollFire
    \/ ResponseListed
    \/ Unauthorized
    \/ NetworkError
    \/ SessionExpired
    \/ ControllerUp

\* Node fires a due timer and both intervals again and again, and every
\* request settles: it is answered, or refused with 401.
LiveLoss ==
    /\ Init
    /\ [][NextLoss]_vars
    /\ SF_vars(reconnectFire)
    /\ SF_vars(deviceListPollFire)
    /\ SF_vars(switchDetailsPollFire)
    /\ WF_vars(ResponseListed)
    /\ WF_vars(Unauthorized)

\* Mutations and their confirmation timers against a controller that fails
\* at will.
NextOutcome ==
    \/ init
    \/ handlePoeAction
    \/ confirmFire
    \/ Response
    \/ Unauthorized
    \/ NetworkError
    \/ AppError

SpecOutcome == Init /\ [][NextOutcome]_vars

\* Mutations, their confirmation timers and the status cycle against a
\* controller whose port-detail fetches succeed.
NextSettle ==
    \/ init
    \/ handlePoeAction
    \/ confirmFire
    \/ switchDetailsPollFire
    \/ ResponseHeld
    \/ OtherFailure
    \/ portApplied

\* Node fires every due confirmation timer, and every request settles.
LiveSettle ==
    /\ InitTracked
    /\ [][NextSettle]_vars
    /\ \A k \in Keys : SF_vars(\E held \in BOOLEAN : confirmFireAt(k, held))
    /\ \A k \in Keys : WF_vars(ConfirmSettles(k))
    /\ WF_vars(ResponseHeld \/ OtherFailure)

\* ------------------------------------------------- getDevices' envelopes
\* JSON values by type tag: "undefined", "null", "string" (with its text),
\* "array" (with its items) and "object" (with errorCode, result and data,
\* each possibly undefined; errorCode "0" or "-1" when present).
Undefined == [t |-> "undefined"]
Null == [t |-> "null"]
Str(text) == [t |-> "string", text |-> text]
Arr(items) == [t |-> "array", items |-> items]
Obj(errorCode, result, data) ==
    [t |-> "object", errorCode |-> errorCode, result |-> result, data |-> data]

\* v?.f
Get(v, f) == IF v.t = "object" THEN v[f] ELSE Undefined

\* Array.isArray(v) and the truthiness of v in a condition.
IsArray(v) == v.t = "array"
Truthy(v) ==
    /\ v.t \notin {"undefined", "null"}
    /\ v.t = "string" => v.text # ""
    /\ v.t = "number" => v.n # 0
    /\ v.t = "boolean" => v.b

\* Device arrays a controller may deliver.
DeviceArrays == {<<>>, <<SW>>, <<GW>>, <<SW, GW>>, <<GW, SW>>}

\* errorCode of an envelope that reports no error: absent or 0.
OkCodes == {Undefined, Str("0")}

\* The four documented envelope shapes around the device array a.
Bare(a) == Arr(a)
UnderResult(a, code) == Obj(code, Arr(a), Undefined)
UnderResultData(a, code) == Obj(code, Obj(Undefined, Undefined, Arr(a)), Undefined)
UnderData(a, code) == Obj(code, Undefined, Arr(a))

Shaped(a) ==
    {Bare(a)} \cup UNION {{UnderResult(a, c), UnderResultData(a, c), UnderData(a, c)} :
                            c \in OkCodes}

\* Answers in none of the four shapes: no body, text, an object without
\* result and data, and objects whose result, result.data or data is no array.
Unshaped ==
    {Null, Str(""), Str("<html>"), Obj(Undefined, Undefined, Undefined),
     Obj(Str("0"), Undefined, Undefined), Obj(Str("0"), Null, Null),
     Obj(Str("0"), Str("none"), Undefined),
     Obj(Str("0"), Obj(Undefined, Undefined, Undefined), Undefined),
     Obj(Str("0"), Obj(Undefined, Undefined, Null), Undefined),
     Obj(Str("0"), Obj(Undefined, Undefined, Str("")), Str("")),
     Obj(Str("0"), Obj(Undefined, Undefined, Str("rows")), Undefined),
     Obj(Str("0"), Obj(Undefined, Undefined, Obj(Undefined, Undefined, Undefined)),
         Undefined),
     Obj(Undefined, Undefined, Str("rows")), Obj(Str("0"), Undefined, Str("")),
     Obj(Str("0"), Undefined, Obj(Undefined, Undefined, Undefined))}

\* Answers that report an error.
Refused == {Obj(Str("-1"), Undefined, Undefined), Obj(Str("-1"), Arr(<<SW>>), Undefined)}

Envelopes == UNION {Shaped(a) : a \in DeviceArrays} \cup Unshaped \cup Refused

\* What getDevices does with response.data: throw, or return a value.
Threw == [t |-> "threw"]
getDevicesBody(data) ==
    IF Get(data, "errorCode") \notin {Undefined, Str("0")} THEN Threw
    ELSE IF IsArray(data) THEN data
    ELSE IF IsArray(Get(data, "result")) THEN Get(data, "result")
    ELSE IF Truthy(Get(Get(data, "result"), "data")) THEN Get(Get(data, "result"), "data")
    ELSE IF Truthy(Get(data, "data")) THEN Get(data, "data")
    ELSE Arr(<<>>)

\* getDevices gets an answer and returns.
getDevicesReturn ==
    /\ envelope # Undefined
    /\ normalized = Undefined
    /\ normalized' = getDevicesBody(envelope)
    /\ UNCHANGED <<modvars, feedback, stale, controller, envelope, patchCall, portConfig>>

InitEnvelope ==
    /\ Init0
    /\ limit = MaxSerial
    /\ controller = Free
    /\ envelope \in Envelopes
    /\ normalized = Undefined
    /\ patchCall = Undefined
    /\ portConfig = Undefined

NextEnvelope == getDevicesReturn

SpecEnvelope == InitEnvelope /\ [][NextEnvelope]_vars

\* The body of the PATCH of updateGatewayPortPoe.
gatewayPortConfig(enablePoe) == [enable_poe |-> [t |-> "boolean", b |-> enablePoe]]

\* ------------------------------------------- updateSwitchPortPoe's payload
\* JSON numbers, booleans and the dhcpL2RelaySettings object.
Num(n) == [t |-> "number", n |-> n]
Bool(b) == [t |-> "boolean", b |-> b]
RelaySettings(enable) == [t |-> "object", enable |-> enable]

\* a || d and a ?? d
Or(a, d) == IF Truthy(a) THEN a ELSE d
Coalesce(a, d) == IF a.t \in {"undefined", "null"} THEN d ELSE a

\* The fields of the payload taken from the port profile.
ProfileFields ==
    {"dhcpL2RelaySettings", "operation", "linkSpeed", "duplex",
     "topoNotifyEnable", "dot1x", "bandWidthCtrlType", "loopbackDetectEnable",
     "spanningTreeEnable", "loopbackDetectVlanBasedEnable",
     "portIsolationEnable", "flowControlEnable", "eeeEnable", "lldpMedEnable"}

\* const portConfig = { ... } of updateSwitchPortPoe.
buildPortConfig(port, profile, enablePoe) ==
    [name |-> port.name,
     profileId |-> port.profileId,
     profileOverrideEnable |-> Bool(TRUE),
     dhcpL2RelaySettings |-> Or(profile.dhcpL2RelaySettings, RelaySettings(FALSE)),
     operation |-> Or(profile.operation, Str("switching")),
     linkSpeed |-> Coalesce(profile.linkSpeed, Num(0)),
     duplex |-> Coalesce(profile.duplex, Num(0)),
     topoNotifyEnable |-> Coalesce(profile.topoNotifyEnable, Bool(FALSE)),
     poe |-> IF enablePoe THEN Num(1) ELSE Num(0),
     dot1x |-> Coalesce(profile.dot1x, Num(2)),
     bandWidthCtrlType |-> Coalesce(profile.bandWidthCtrlType, Num(0)),
     loopbackDetectEnable |-> Coalesce(profile.loopbackDetectEnable, Bool(FALSE)),
     spanningTreeEnable |-> Coalesce(profile.spanningTreeEnable, Bool(FALSE)),
     loopbackDetectVlanBasedEnable |->
         Coalesce(profile.loopbackDetectVlanBasedEnable, Bool(FALSE)),
     portIsolationEnable |-> Coalesce(profile.portIsolationEnable, Bool(FALSE)),
     flowControlEnable |-> Coalesce(profile.flowControlEnable, Bool(FALSE)),
     eeeEnable |-> Coalesce(profile.eeeEnable, Bool(FALSE)),
     lldpMedEnable |-> Coalesce(profile.lldpMedEnable, Bool(TRUE))]

\* Values a profile answer may carry in a field, besides leaving it out:
\* JSON null, and values of the field's type, the falsy ones included.
FieldValues(f) ==
    {Undefined, Null} \cup
    CASE f = "dhcpL2RelaySettings" -> {RelaySettings(FALSE), RelaySettings(TRUE)}
      [] f = "operation" -> {Str(""), Str("switching"), Str("mirroring")}
      [] f \in {"linkSpeed", "duplex", "dot1x", "bandWidthCtrlType"} ->
             {Num(0), Num(1), Num(2)}
      [] OTHER -> {Bool(FALSE), Bool(TRUE)}

\* A profile answer that leaves every field out, and one that sets every
\* field to a value other than the payload's fallback.
BareProfile == [f \in ProfileFields |-> Undefined]
FullProfile ==
    [f \in ProfileFields |->
        CASE f = "dhcpL2RelaySettings" -> RelaySettings(TRUE)
          [] f = "operation" -> Str("mirroring")
          [] f \in {"linkSpeed", "duplex", "dot1x", "bandWidthCtrlType"} -> Num(1)
          [] f = "lldpMedEnable" -> Bool(FALSE)
          [] OTHER -> Bool(TRUE)]

\* Profile answers: one of the two above with one field set to any value.
Profiles ==
    {[base EXCEPT ![f] = v] :
        <<base, f, v>> \in UNION {{<<b, g, w>> : w \in FieldValues(g)} :
                                    <<b, g>> \in {BareProfile, FullProfile} \X ProfileFields}}

\* Port records of the port-detail answer, as far as the payload uses them.
PayloadPorts == {[name |-> "Port1", profileId |-> id] : id \in {"p1", "p2"}}

\* updateSwitchPortPoe from the profile answer to the PATCH request.
sendPatch ==
    /\ patchCall # Undefined
    /\ portConfig = Undefined
    /\ portConfig' = buildPortConfig(patchCall.port, patchCall.profile, patchCall.enablePoe)
    /\ UNCHANGED <<modvars, feedback, stale, controller, envelope, normalized, patchCall>>

InitPayload ==
    /\ Init0
    /\ limit = MaxSerial
    /\ controller = Free
    /\ envelope = Undefined
    /\ normalized = Undefined
    /\ patchCall \in [t : {"call"}, port : PayloadPorts, profile : Profiles,
                       enablePoe : BOOLEAN]
    /\ portConfig = Undefined

NextPayload == sendPatch

SpecPayload == InitPayload /\ [][NextPayload]_vars

\* ------------------------------------------------------------- properties
\* Steps of a call, told from the two states of the step.
Ended(t) == BagIn(t, tasks) /\ tasks' = tasks (-) SetToBag({t})
Left(t) == CopiesIn(t, tasks') < CopiesIn(t, tasks)
Entered(u) == CopiesIn(u, tasks') > CopiesIn(u, tasks)

\* The PATCH of the action t is answered with success: togglePortPoe returns.
ToggleSuccess(t) ==
    t.kind = "action" /\ t.ctx = "mut" /\ t.pc \in {"patch", "gwPatch"} /\ Ended(t)

\* The mutation of the action t fails: the call leaves updatePortPoe other
\* than by success.
MutationFailed(t) ==
    /\ t.kind = "action" /\ t.ctx = "mut"
    /\ Left(t)
    /\ ~ToggleSuccess(t)
    /\ \A u \in BagToSet(tasks') : u.kind = "action" /\ u.ctx = "mut" => ~Entered(u)

\* The cache holds a record for the device with that port and a portStatus.
Writable(cache, deviceMac, portNumber) ==
    /\ deviceMac \in DOMAIN cache
    /\ FindPort(cache[deviceMac].ports, portNumber) # <<>>
    /\ FindPort(cache[deviceMac].ports, portNumber)[1].poe # "none"

\* C1: in every reachable state isPoeEnabled(mac, port) evaluates, to false,
\* for every pair whose device has no cache entry or whose cached entry has
\* no port with that number.
C1_AbsentIsFalse ==
    \A m \in QueryMacs, p \in QueryPorts :
        (m \notin DOMAIN switchDetailsCache
           \/ FindPort(switchDetailsCache[m].ports, p) = <<>>)
        => isPoeEnabled(m, p) = FALSE

\* C1 witness: SW1 is cached with port 1 on and without a port 2.
C1_CachedWithoutPort ==
    /\ "SW1" \in DOMAIN switchDetailsCache
    /\ FindPort(switchDetailsCache["SW1"].ports, 2) = <<>>
    /\ isPoeEnabled("SW1", 1)
    /\ ~isPoeEnabled("SW1", 2)

C3_OlderTimerCancelled ==
    [][\A t \in BagToSet(tasks) :
         (ToggleSuccess(t) /\ timers[<<t.mac, t.port>>] > 0)
         => timers'[<<t.mac, t.port>>] = 1]_vars

\* C4 as stated: a client call logs in again at most once, whatever the
\* controller answers to its retry.
C4_OneRelogin == \A t \in BagToSet(tasks) : t.relogins <= 1

\* C5: when the PATCH of an action is answered with a non-zero errorCode, the
\* mutation fails with that error: the port-state cache is left as it was, no
\* confirmation timer is armed, and the call is in togglePortPoe's catch block.
C5_RejectedNotWritten ==
    [][\A t \in BagToSet(tasks) :
         (t.kind = "action" /\ t.pc \in {"patch", "gwPatch"} /\ FailureAt(t, "apperr"))
         => /\ switchDetailsCache' = switchDetailsCache
            /\ timers' = timers
            /\ confirmationTimeouts' = confirmationTimeouts
            /\ \E u \in BagToSet(tasks') :
                  /\ Entered(u)
                  /\ u.kind = "action" /\ u.ctx = "refresh" /\ u.err = "rejected"
                  /\ u.mac = t.mac /\ u.port = t.port /\ u.want = t.want]_vars

\* C5 witness: a rejected PATCH that asked for the opposite of what the cache
\* holds for SW1 port 1 is in the catch block.
C5_RejectedInCatch ==
    \E u \in BagToSet(tasks) :
        /\ u.kind = "action" /\ u.err = "rejected" /\ u.mac = "SW1" /\ u.port = 1
        /\ Writable(switchDetailsCache, "SW1", 1)
        /\ isPoeEnabled("SW1", 1) # u.want

\* C6: when the mutation of an action fails, the port-state cache and the
\* confirmation timers are left as they were, the device-list request of the
\* refresh is in flight, and neither the status nor the host has seen the
\* error yet.
C6_FailureRefreshes ==
    [][\A t \in BagToSet(tasks) :
         MutationFailed(t)
         => /\ switchDetailsCache' = switchDetailsCache
            /\ timers' = timers
            /\ confirmationTimeouts' = confirmationTimeouts
            /\ status' = status
            /\ escaped' = escaped
            /\ \E u \in BagToSet(tasks') :
                  /\ Entered(u)
                  /\ u.kind = "action" /\ u.ctx = "refresh" /\ u.pc = "devices"
                  /\ u.err # "" /\ u.mac = t.mac /\ u.port = t.port]_vars

\* C6 witness: the refresh of a failed mutation is in flight after a login
\* that a 401 made necessary failed.
C6_RefreshAfterFailure ==
    \E u \in BagToSet(tasks) :
        /\ u.kind = "action" /\ u.ctx = "refresh" /\ u.pc = "devices"
        /\ u.err = "unauth"

\* C7: no error of an action callback reaches the host.
C7_NothingEscapes == escaped = FALSE

\* C7 witness: an action failed, its handler caught the error, nothing runs.
C7_CaughtByHandler ==
    status = "UnknownError" /\ tasks = EmptyBag /\ ~escaped

\* C8 as stated: when a failed action returns, the status is what it was.
C8_StatusKept ==
    [][\A t \in BagToSet(tasks) :
         (t.kind = "action" /\ t.err # "" /\ Ended(t)) => status' = status]_vars

\* C9: for every device and port poe_state_off is the negation of poe_state,
\* in every reachable state and in what an evaluation hands to the host, and
\* an evaluation changes nothing else: no cache, no timer, no call in flight.
C9_OffNegatesOn ==
    /\ [](\A m \in QueryMacs, p \in QueryPorts :
            handlePoeStateOffFeedback(m, p) = ~handlePoeStateFeedback(m, p))
    /\ [](feedback.off = ~feedback.on)
    /\ [][feedback' # feedback => UNCHANGED modvars]_vars

\* C9 witness: the feedbacks were evaluated for a port that is on.
C9_EvaluatedOn == feedback.on /\ ~feedback.off

\* C10: after a failed connect attempt the reconnect timer is armed unless an
\* attempt is under way, and once the controller is up for good a module in
\* ConnectionFailure reaches status Ok with both polls started.
C10_ReconnectsToOk ==
    /\ []((status = "ConnectionFailure"
             /\ \A t \in BagToSet(tasks) : t.kind # "conn") => reconnectTimeout)
    /\ (status = "ConnectionFailure" /\ up)
         ~> (status = "Ok" /\ deviceListPollInterval /\ switchDetailsPollInterval)

\* C10 witness: connected, on a later client object than the first.
C10_OkAfterRetry ==
    /\ up /\ client > 1
    /\ status = "Ok" /\ deviceListPollInterval /\ switchDetailsPollInterval

\* C11 as stated: once a connect attempt has failed, the status stays
\* ConnectionFailure until a connect attempt succeeds and sets Ok.
C11_FailureShown ==
    [][status = "ConnectionFailure" => status' \in {"ConnectionFailure", "Ok"}]_vars

\* C12 as stated: while the module is connected (status Ok, both polls
\* started by a successful connect) no reconnect timer is armed.
C12_OkDisarmed ==
    (status = "Ok" /\ deviceListPollInterval /\ switchDetailsPollInterval)
    => ~reconnectTimeout

C14_AuthFailureTerminal ==
    [][\A t \in BagToSet(tasks) :
         (t.kind = "conn" /\ t.pc = "loginPost" /\ FailureAt(t, "unauth"))
         => ~reconnectTimeout']_vars

\* C15 as stated: getDevices returns the device array a, as is, for a
\* delivered in each of the four envelope shapes, and returns the empty array
\* for every answer that is in none of the four shapes and reports no error.
C15_ShapesNormalized ==
    normalized # Undefined
    => /\ \A a \in DeviceArrays : envelope \in Shaped(a) => normalized = Arr(a)
       /\ envelope \in Unshaped => normalized = Arr(<<>>)

\* The call of action u has just come to wait at request pc, on a step on
\* which the same call stopped waiting at one of the requests in from.
Reached(u, pc, from) ==
    (Entered(u) /\ u.kind = "action" /\ u.ctx = "mut" /\ u.want /\ u.pc = pc)
    => \E t \in BagToSet(tasks) :
          /\ Left(t) /\ t.kind = "action" /\ t.ctx = "mut" /\ t.pc \in from
          /\ t.mac = u.mac /\ t.port = u.port /\ t.want

\* Every enable, whatever the cache shows, starts at the device lookup,
\* reaches the PATCH of a switch port only through the port-detail fetch and
\* the profile fetch, and returns from the mutation only at the PATCH.
FullSequence ==
    /\ \A u \in BagToSet(tasks') :
          /\ Reached(u, "patch", {"profile"})
          /\ Reached(u, "profile", {"details"})
          /\ Reached(u, "details", {"devices", "site"})
          /\ Reached(u, "gwPatch", {"devices", "site"})
          /\ (Entered(u) /\ u.kind = "action" /\ u.ctx = "mut"
                /\ \A t \in BagToSet(tasks) : ~Left(t))
             => u.pc = "devices"
    /\ \A t \in BagToSet(tasks) :
          (t.kind = "action" /\ t.ctx = "mut" /\ t.want /\ Ended(t))
          => t.pc \in {"patch", "gwPatch"}

Fallback(f) ==
    CASE f = "dhcpL2RelaySettings" -> RelaySettings(FALSE)
      [] f = "operation" -> Str("switching")
      [] f = "dot1x" -> Num(2)
      [] f \in {"linkSpeed", "duplex", "bandWidthCtrlType"} -> Num(0)
      [] f = "lldpMedEnable" -> Bool(TRUE)
      [] OTHER -> Bool(FALSE)

\* C17: the payload carries poe as the number 1 for on and 0 for off,
\* profileOverrideEnable true, the port's profileId, and in every
\* profile-sourced field the profile's value when the profile defines the
\* field (it is present and not null) and the fixed fallback otherwise.
C17_PayloadFromProfile ==
    portConfig # Undefined =>
        /\ portConfig.poe = Num(IF patchCall.enablePoe THEN 1 ELSE 0)
        /\ portConfig.profileOverrideEnable = Bool(TRUE)
        /\ portConfig.profileId = patchCall.port.profileId
        /\ \A f \in ProfileFields :
              portConfig[f] = IF patchCall.profile[f] \in {Undefined, Null}
                              THEN Fallback(f)
                              ELSE patchCall.profile[f]

\* A switch-details poll gets the details of a switch and caches them.
StatusRefreshed ==
    \E t \in BagToSet(tasks), details \in DetailsSet :
        /\ t.kind = "statusPoll"
        /\ t.pc = "details"
        /\ ResponseAt(t, NoDevices, details)

\* C18: once the module has connected and the controller, after being out of
\* reach or dropping the session, is up for good, the switch-details polls
\* cache fresh details again and again, with no call from the host.
C18_RefreshResumes == <>(up /\ status = "Ok") => []<><<StatusRefreshed>>_vars

\* C18 witness: the controller is up again, the session of the connected
\* client is valid again, and the device-list poll that logged in again on a
\* 401 repeats its request.
C18_LoggedInAgain ==
    /\ up
    /\ status = "Ok"
    /\ client \notin stale
    /\ \E t \in BagToSet(tasks) :
          t.kind = "discPoll" /\ t.pc = "devices" /\ t.relogins > 0 /\ t.cl = client

\* C19: however the logout request settles (answered, refused, failed, no
\* answer), logout returns normally: nothing is thrown, the client holds no
\* session afterwards, destroy ends with the status as it was and
\* configUpdated goes on to connect. When destroy finds no token to log out
\* with, it sends nothing and the client holds no session either.
C19_LogoutNeverFails ==
    [][/\ \A t \in BagToSet(tasks) :
            (t.pc = "logout" /\ Left(t))
            => /\ ~clients'[t.cl].token
               /\ ~escaped'
               /\ t.kind = "destroy" =>
                     status' = status /\ \A u \in BagToSet(tasks') : ~Entered(u)
               /\ t.kind = "reconf" =>
                     \E u \in BagToSet(tasks') :
                         Entered(u) /\ u.kind = "conn" /\ u.pc = "info"
       /\ (phase = "running" /\ phase' = "destroyed" /\ client # 0)
          => \/ \E u \in BagToSet(tasks') : Entered(u) /\ u.pc = "logout"
             \/ ~clients'[client].token /\ tasks' = tasks]_vars

\* C19 witness: destroy has logged the connected client out: the module is
\* destroyed, still shows Ok, and its client holds no session any more.
C19_LoggedOut ==
    /\ phase = "destroyed"
    /\ status = "Ok"
    /\ tasks = EmptyBag
    /\ client # 0
    /\ clients[client].controllerId
    /\ ~clients[client].token

\* login() of task t returns normally on this step: the caller goes on with
\* the request after it, and no connect attempt fails.
LoginReturns(t) ==
    /\ ~escaped'
    /\ status' # "ConnectionFailure" \/ status = "ConnectionFailure"
    /\ reconnectTimeout' = reconnectTimeout
    /\ \E u \in BagToSet(tasks') :
          /\ Entered(u)
          /\ u.kind = t.kind /\ u.cl = t.cl
          /\ u.pc = (CASE t.ret = "switch" -> "details"
                       [] t.ret = "gateway" -> "gwPatch"
                       [] OTHER -> "devices")

\* C20: when the current-user request names a site exactly like the
\* configured site, its key becomes the site identifier, also when a site
\* whose name differs in case only is listed first; when it names none, fails,
\* or reports an error code, the site identifier stays as it was; and in
\* every case login returns normally.
C20_SiteKeyNeverFails ==
    [][\A t \in BagToSet(tasks) :
         t.pc = "site" =>
           /\ ResponseAt(t, NoDevices, NoDetails)
              => /\ clients'[t.cl].site =
                       IF clients[t.cl].site = "name" THEN "key" ELSE clients[t.cl].site
                 /\ LoginReturns(t)
           /\ \A userSites \in OtherSites :
                SitesAt(t, userSites)
                => clients'[t.cl].site = clients[t.cl].site /\ LoginReturns(t)
           /\ \A o \in {"unauth", "neterr", "apperr"} :
                FailureAt(t, o)
                => clients'[t.cl].site = clients[t.cl].site /\ LoginReturns(t)]_vars

\* C20 witness: the module is connected through a client that still uses the
\* configured site name, its current-user request having failed or named no
\* such site.
C20_ConnectedByName ==
    /\ status = "Ok"
    /\ client # 0
    /\ clients[client].token
    /\ clients[client].site = "name"

\* C21 as stated: in every reachable state at most one confirmation timer is
\* pending in the runtime for each (mac, port) key.
C21_OneTimerPerKey == \A k \in Keys : timers[k] <= 1

\* C22 as stated: when configUpdated or destroy has run up to its logout, no
\* confirmation timer is pending, no poll interval is alive and no reconnect
\* timer is armed.
C22_TeardownCancelsAll ==
    [][(configUpdated \/ destroy)
       => /\ \A k \in Keys : timers'[k] = 0
          /\ devIntervals' = 0 /\ swIntervals' = 0
          /\ ~reconnectTimeout']_vars

\* C23 as stated: every MAC with an entry in the switch-details cache is the
\* MAC of a device in the device cache.
C23_CachedIsListed ==
    \A m \in DOMAIN switchDetailsCache :
        \E i \in DOMAIN deviceCache : deviceCache[i].mac = m

\* C24 as stated: an entry of confirmationTimeouts for a key means that an
\* optimistic write was applied for the key and that nothing has overwritten
\* the cached record of its device since. As no entry exists at the start,
\* that is: a toggle that stores an entry writes the cached port, and a
\* status poll that replaces the cached record of a device leaves no entry
\* for the ports of that device.
C24_EntryMeansUnreconciled ==
    [][/\ \A t \in BagToSet(tasks) :
            ToggleSuccess(t) => Writable(switchDetailsCache, t.mac, t.port)
       /\ \A t \in BagToSet(tasks), details \in DetailsSet :
            (t.kind = "statusPoll" /\ t.pc = "details"
               /\ ResponseAt(t, NoDevices, details))
            => \A p \in Ports : confirmationTimeouts'[<<Head(t.todo), p>>] = "none"]_vars

\* C25 as stated: no poll, confirmation refresh or mutation comes to wait at
\* a request of a client whose logout is in progress, nor at any request once
\* the module is destroyed.
C25_NoCallDuringTeardown ==
    [][\A u \in BagToSet(tasks') :
         (Entered(u) /\ u.kind \in {"statusPoll", "discPoll", "confirm", "action"})
         => /\ phase' # "destroyed"
            /\ \A l \in BagToSet(tasks') : l.pc = "logout" => l.cl # u.cl]_vars

\* C26 as stated: when a connect attempt fails, at whichever request, its
\* client holds no session afterwards; and every connect attempt starts on a
\* client without controller id, session or resolved site.
C26_FailedConnectKeepsNothing ==
    [][/\ \A t \in BagToSet(tasks) :
            (t.kind = "conn" /\ Ended(t) /\ status' = "ConnectionFailure")
            => ~clients'[t.cl].token
       /\ \A u \in BagToSet(tasks') :
            (Entered(u) /\ u.kind = "conn" /\ u.pc = "info" /\ u.relogins = 0)
            => clients'[u.cl] = FreshClient(config')]_vars

\* C27 as stated, for the connect attempts of init and configUpdated: when
\* the attempt fails at its first request, so that nothing was fetched through
\* the new connection, the device cache and the switch-details cache are
\* empty.
C27_NothingFromOldController ==
    [][\A t \in BagToSet(tasks) :
         (t.kind = "conn" /\ t.pc = "info" /\ Ended(t))
         => deviceCache' = <<>> /\ switchDetailsCache' = <<>>]_vars

\* The first device of the list with the MAC of the call of t, if any.
Listed(t, devices) == SelectSeq(devices, LAMBDA d : d.mac = t.mac)

\* C28: when the device lookup of a mutation is answered, a device listed as
\* gateway sends the call to the gateway PATCH, whose body is the boolean
\* enable_poe; a device listed with any other type sends it to the port-detail
\* fetch of the switch path; a device not listed fails it with the not-found
\* error and no request of the mutation follows. The gateway PATCH is reached
\* without detail or profile fetch and followed by none.
C28_DispatchOnKind ==
    [][\A t \in BagToSet(tasks) :
         /\ (t.kind = "action" /\ t.ctx = "mut" /\ t.pc = "devices")
            => \A devices \in DeviceLists \cup OtherKindLists :
                 ResponseAt(t, devices, NoDetails)
                 => \E u \in BagToSet(tasks') :
                      /\ Entered(u) /\ u.kind = "action"
                      /\ u.mac = t.mac /\ u.port = t.port /\ u.want = t.want
                      /\ IF Listed(t, devices) = <<>>
                         THEN u.err = "notfound" /\ u.ctx = "refresh"
                         ELSE IF Listed(t, devices)[1].type = "gateway"
                         THEN /\ u.pc = "gwPatch" /\ u.ctx = "mut"
                              /\ gatewayPortConfig(u.want).enable_poe \in
                                    {Bool(TRUE), Bool(FALSE)}
                              /\ gatewayPortConfig(u.want).enable_poe.b = t.want
                         ELSE u.pc = "details" /\ u.ctx = "mut"
         /\ (t.kind = "action" /\ t.pc = "gwPatch" /\ Left(t))
            => \A u \in BagToSet(tasks') :
                 Entered(u) => ~(u.ctx = "mut" /\ u.pc \in {"details", "profile", "patch"})]_vars

\* C28 witness: the controller listed GW1 with a type other than gateway, and
\* the mutation of its port 1 waits for the port-detail fetch of the switch
\* path.
C28_OtherKindOnSwitchPath ==
    \E t \in BagToSet(tasks) :
        t.kind = "action" /\ t.ctx = "mut" /\ t.pc = "details" /\ t.mac = "GW1"

\* No request of the mutation of t follows on this step, nothing is written
\* to the cache and no confirmation timer is armed or stored.
MutationStops(t) ==
    /\ \A u \in BagToSet(tasks') : Entered(u) => u.ctx # "mut"
    /\ switchDetailsCache' = switchDetailsCache
    /\ timers' = timers
    /\ confirmationTimeouts' = confirmationTimeouts

\* C29: a mutation on the switch path asks for the profile only when the
\* port-detail fetch succeeded and holds the port, sends the PATCH only when
\* the profile fetch succeeded, and writes the cache and arms the
\* confirmation timer only when the PATCH succeeded: a failed fetch or an
\* absent port stops it, and the steps before the answer to the PATCH write
\* no cache and arm no timer.
C29_StepsInOrder ==
    [][\A t \in BagToSet(tasks) :
         (t.kind = "action" /\ t.ctx = "mut") =>
           /\ \A details \in DetailsSet :
                  (t.pc = "details" /\ ResponseAt(t, NoDevices, details))
                  => IF FindPort(details.ports, t.port) = <<>>
                     THEN /\ MutationStops(t)
                          /\ \E u \in BagToSet(tasks') : Entered(u) /\ u.err = "noport"
                     ELSE \E u \in BagToSet(tasks') :
                            Entered(u) /\ u.ctx = "mut" /\ u.pc = "profile"
           /\ (t.pc = "profile" /\ ResponseAt(t, NoDevices, NoDetails))
                => \E u \in BagToSet(tasks') :
                     Entered(u) /\ u.ctx = "mut" /\ u.pc = "patch"
           /\ \A o \in {"neterr", "apperr"} :
                (t.pc \in {"details", "profile", "patch"} /\ FailureAt(t, o))
                => MutationStops(t)
           /\ (t.pc \notin {"patch", "gwPatch"} /\ Left(t))
              => /\ switchDetailsCache' = switchDetailsCache
                 /\ timers' = timers
                 /\ confirmationTimeouts' = confirmationTimeouts
                 /\ \A u \in BagToSet(tasks') :
                      (Entered(u) /\ u.ctx = "mut" /\ u.pc = "patch") => t.pc = "profile"
                 /\ \A u \in BagToSet(tasks') :
                      (Entered(u) /\ u.ctx = "mut" /\ u.pc = "profile") => t.pc = "details"
           /\ (t.pc = "patch" /\ ResponseAt(t, NoDevices, NoDetails))
              => /\ switchDetailsCache' =
                       OptimisticWrite(switchDetailsCache, t.mac, t.port, t.want)
                 /\ confirmationTimeouts'[<<t.mac, t.port>>] = "pending"
                 /\ timers'[<<t.mac, t.port>>] >= 1]_vars

\* C29 witness: the details of SW1 did not hold port 1, the mutation stopped
\* with the port-not-found error and is in the refresh of its catch block.
C29_StoppedAtAbsentPort ==
    \E u \in BagToSet(tasks) :
        u.kind = "action" /\ u.err = "noport" /\ u.mac = "SW1" /\ u.ctx = "refresh"

\* The MACs of the switch-kind devices of the device cache, in its order.
CachedSwitches ==
    LET switches == SelectSeq(deviceCache, LAMBDA d : d.type = "switch")
    IN  [i \in DOMAIN switches |-> switches[i].mac]

\* The status cycle t goes on after the request for its first switch: to
\* the next switch without a signal, or, after the last one, to one signal
\* and its end.
CycleGoesOn(t) ==
    IF Len(t.todo) > 1
    THEN /\ signals' = 0
         /\ \E u \in BagToSet(tasks') :
               /\ Entered(u) /\ u.kind = "statusPoll" /\ u.pc = "details"
               /\ u.todo = Tail(t.todo)
    ELSE signals' = 1 /\ Ended(t)

\* C30: a status cycle starts with the request for the first of all
\* switch-kind devices of the device cache (with none it signals the
\* feedbacks at once); every answer is cached for its switch alone and every
\* failed request leaves the cache as it was; either way the cycle goes on to
\* the next switch and, after the last, signals the feedbacks once and ends.
C30_CycleCoversAll ==
    [][/\ switchDetailsPollFire
          => IF CachedSwitches = <<>>
             THEN signals' = 1 /\ tasks' = tasks
             ELSE /\ signals' = 0
                  /\ \E u \in BagToSet(tasks') :
                        /\ Entered(u) /\ u.kind = "statusPoll" /\ u.pc = "details"
                        /\ u.todo = CachedSwitches
       /\ \A t \in BagToSet(tasks) :
            /\ \A details \in DetailsSet :
                 (t.kind = "statusPoll" /\ ResponseAt(t, NoDevices, details))
                 => /\ switchDetailsCache' =
                          CacheSet(switchDetailsCache, Head(t.todo), details)
                    /\ CycleGoesOn(t)
            /\ \A o \in {"unauth", "neterr", "apperr"} :
                 (t.kind = "statusPoll" /\ FailureAt(t, o))
                 => /\ switchDetailsCache' = switchDetailsCache
                    /\ CycleGoesOn(t)]_vars

\* C30 witness: the cycle over SW1 and SW2 is at its second switch, and the
\* cache holds no details of the first, whose request failed.
C30_SecondAfterFailedFirst ==
    \E t \in BagToSet(tasks) :
        /\ t.kind = "statusPoll" /\ t.pc = "details"
        /\ t.todo = <<"SW2">>
        /\ "SW1" \notin DOMAIN switchDetailsCache

\* C31: after a successful toggle on a port of SW1 (its timer entry is
\* pending) the cached record of SW1 eventually equals the record the
\* controller holds, and it does so at the latest when the fetch of a
\* confirmation callback for SW1 is answered.
C31_DivergenceBounded ==
    /\ \A k \in Keys :
         (k[1] = SW.mac /\ confirmationTimeouts[k] = "pending")
         ~> (/\ SW.mac \in DOMAIN switchDetailsCache
             /\ switchDetailsCache[SW.mac] = Authoritative)
    /\ [][\A t \in BagToSet(tasks) :
            (t.kind = "confirm" /\ ResponseAt(t, NoDevices, Authoritative))
            => /\ t.mac \in DOMAIN switchDetailsCache'
               /\ switchDetailsCache'[t.mac] = Authoritative']_vars

\* C31 witness: the timer entry of SW1's port is pending and the cache, written
\* optimistically, shows another PoE state than the controller's record.
C31_Diverged ==
    /\ confirmationTimeouts[<<SW.mac, 1>>] = "pending"
    /\ SW.mac \in DOMAIN switchDetailsCache
    /\ switchDetailsCache[SW.mac] # Authoritative
    /\ isPoeEnabled(SW.mac, 1) # (controller.poe = "on")

\* C32 as stated: a mutation that failed because its device is not listed or
\* its port is not in the details of the switch changes neither cache: every
\* step of its call after the failure leaves the device cache and the
\* switch-details cache as they were.
C32_NotFoundChangesNothing ==
    [][\A t \in BagToSet(tasks) :
         (t.kind = "action" /\ t.err \in {"notfound", "noport"} /\ Left(t))
         => /\ deviceCache' = deviceCache
            /\ switchDetailsCache' = switchDetailsCache]_vars

\* C33 as stated: a port-detail or port-profile fetch refused with 401,
\* whoever made it (a mutation, the status cycle, the refresh of a connect
\* attempt or a confirmation callback), is followed by a re-login of its
\* call, which then repeats the fetch.
C33_DetailFetchReauthenticates ==
    [][\A t \in BagToSet(tasks) :
         (t.pc \in {"details", "profile"} /\ FailureAt(t, "unauth"))
         => \E u \in BagToSet(tasks') :
               /\ Entered(u) /\ u.kind = t.kind /\ u.pc = "info"
               /\ u.ret = "switch"]_vars

\* C34: when the device-list fetch of a refresh is answered, the device cache
\* holds the devices of the answer and no other, in one step; when a request
\* fails, whichever it is, the device cache is what it was.
C34_DirectoryReplaced ==
    [][\A t \in BagToSet(tasks) :
         /\ \A devices \in DeviceLists :
              (t.pc = "devices" /\ t.ctx = "refresh"
                 /\ ResponseAt(t, devices, NoDetails))
              => /\ {deviceCache'[i] : i \in DOMAIN deviceCache'}
                      = {devices[i] : i \in DOMAIN devices}
                 /\ Len(deviceCache') = Len(devices)
         /\ \A o \in {"unauth", "neterr", "apperr"} :
              FailureAt(t, o) => deviceCache' = deviceCache]_vars

\* C34 witness: a connected module whose device cache a poll has emptied
\* after the cache had named SW1, whose details are still held.
C34_DevicesRemoved ==
    /\ status = "Ok"
    /\ deviceCache = <<>>
    /\ SW.mac \in DOMAIN switchDetailsCache

\* C35 as stated: while the configuration lacks host, username or password,
\* no connect attempt is in progress, no reconnect timer and no poll interval
\* is armed, and the status is BadConfig.
C35_MissingConfigIdle ==
    config = "missing"
    => /\ \A t \in BagToSet(tasks) : t.kind # "conn"
       /\ ~reconnectTimeout
       /\ devIntervals = 0 /\ swIntervals = 0
       /\ status = "BadConfig"

\* C36 as stated: a toggle invoked while a mutation of an earlier toggle on
\* the same device and port is still in flight requests the opposite of what
\* that mutation requests.
C36_TogglesAlternate ==
    [][handlePoeToggle
       => \A u \in BagToSet(tasks') :
            (Entered(u) /\ u.kind = "action")
            => \A t \in BagToSet(tasks) :
                 (t.kind = "action" /\ t.ctx = "mut"
                    /\ t.mac = u.mac /\ t.port = u.port)
                 => t.want # u.want]_vars

\* destroy() has returned: it has run, and its logout, if any, has settled.
Destroyed == phase = "destroyed" /\ \A t \in BagToSet(tasks) : t.pc # "logout"

\* C37 as stated: once destroy has returned, no poll interval, reconnect timer
\* or confirmation timer is armed, and no call sends a request any more, the
\* calls that were in flight when destroy ran included.
C37_QuietAfterDestroy ==
    /\ [](Destroyed => /\ devIntervals = 0 /\ swIntervals = 0
                       /\ ~reconnectTimeout
                       /\ \A k \in Keys : timers[k] = 0)
    /\ [][Destroyed => \A u \in BagToSet(tasks') : ~Entered(u)]_vars

\* C38: at most one device-list interval and at most one switch-details
\* interval are alive, whatever the interleaving of connect attempts,
\* reconnect firings and configuration updates.
C38_OneIntervalEach == devIntervals <= 1 /\ swIntervals <= 1

\* C38 witness: a connect attempt succeeds while the intervals started by
\* another attempt that was in flight with it are alive; one interval of each
\* kind is alive afterwards.
C38_SecondConnectWhilePolling ==
    /\ devIntervals = 1 /\ swIntervals = 1
    /\ \E t \in BagToSet(tasks) : t.kind = "conn" /\ t.pc = "details"

\* C39: when the fetch of a confirmation callback fails, the switch-details
\* cache is left as it is and the Map holds no timer for the key afterwards;
\* when it is answered, the cache entry of the device is the answered record,
\* the other entries are kept, the feedbacks are signalled once and the Map
\* holds no timer for the key. The callback ends either way.
C39_ConfirmationOutcome ==
    [][\A t \in BagToSet(tasks) :
         /\ \A o \in {"unauth", "neterr", "apperr"} :
              (t.kind = "confirm" /\ FailureAt(t, o))
              => /\ switchDetailsCache' = switchDetailsCache
                 /\ confirmationTimeouts'[<<t.mac, t.port>>] = "none"
                 /\ signals' = 0
                 /\ Ended(t)
         /\ \A details \in DetailsSet :
              (t.kind = "confirm" /\ ResponseAt(t, NoDevices, details))
              => /\ switchDetailsCache' = CacheSet(switchDetailsCache, t.mac, details)
                 /\ confirmationTimeouts'[<<t.mac, t.port>>] = "none"
                 /\ signals' = 1
                 /\ Ended(t)]_vars

\* C39 witness: the fetch of a confirmation callback for SW1 has failed: the
\* cache still shows the port as the toggle wrote it, not as the switch
\* reported it before, and the Map holds no timer for the key.
C39_OptimisticKept ==
    /\ confirmationTimeouts[<<SW.mac, 1>>] = "none"
    /\ timers[<<SW.mac, 1>>] = 0
    /\ tasks = EmptyBag
    /\ phase = "running"
    /\ SW.mac \in DOMAIN switchDetailsCache
    /\ switchDetailsCache[SW.mac].ports = <<PortRec(2, "on"), PortRec(1, "on")>>

\* C40: on a client whose site identifier is the key resolved by an earlier
\* login, every request of a later login, answered (with sites none of which
\* is named like the key) or failed, leaves the site identifier equal to the
\* key for as long as the client is in use.
C40_ReloginKeepsSiteKey ==
    [][\A t \in BagToSet(tasks) :
         (t.pc \in {"info", "loginPost", "site"} /\ Left(t)
            /\ clients[t.cl].site = "key"
            /\ (t.cl = client' \/ \E u \in BagToSet(tasks') : u.cl = t.cl))
         => clients'[t.cl].site = "key"]_vars

\* C40 witness: a re-login after a 401 waits for its current-user request on
\* a client whose site identifier is the key already.
C40_ReloginOnResolved ==
    \E t \in BagToSet(tasks) :
        /\ t.pc = "site" /\ t.relogins > 0
        /\ clients[t.cl].site = "key"

====
